---- MODULE Spec2Model ----
(***************************************************************************)
(* Gradient-field core of the two modules create_gradient_image.py and     *)
(* create_gradient_on_image.py: coordinate grids, linear and radial        *)
(* fields, direction application and RGB combination, as called by a       *)
(* client process.                                                         *)
(*                                                                         *)
(* The arithmetic of numpy's float64 arrays is a parameter of the          *)
(* behaviour, fixed by the initial state:                                  *)
(*   - under Spec it is exact: elements are real numbers of the form       *)
(*     a + b*sqrt(f) (a, b rational, f a square-free natural), which is    *)
(*     closed under every arithmetic step the two modules take on the      *)
(*     inputs drawn here;                                                  *)
(*   - under SpecRounded it is binary floating point: every elementwise    *)
(*     operation returns the exact result rounded to the nearest number    *)
(*     with a significand of MantissaBits bits, ties to even (float64 has  *)
(*     53 bits; overflow and subnormals are out of reach of the inputs     *)
(*     drawn here and are not modelled).                                   *)
(* NaN is a separate value in both.                                        *)
(***************************************************************************)
EXTENDS Integers, Naturals, Sequences, FiniteSets, TLC

(***************************************************************************)
(* Bounds of the model.                                                    *)
(***************************************************************************)
\* largest width / height a client asks for
MaxDim == 4
\* most calls a client chains before it drops its references
MaxCalls == 3
\* bits of the significand of a rounded array element under SpecRounded
MantissaBits == 4

\* the arithmetic of array elements: 0 for exact reals, otherwise the number
\* of bits of the significand every result is rounded to
VARIABLE significand

(***************************************************************************)
(* Rational numbers <<n, d>>, d > 0, in lowest terms.                      *)
(***************************************************************************)
Abs(n) == IF n < 0 THEN -n ELSE n

RECURSIVE GCD(_, _)
GCD(a, b) == IF b = 0 THEN a ELSE GCD(b, a % b)

RatNorm(n, d) ==
    LET s == IF d < 0 THEN -1 ELSE 1
        g == GCD(Abs(n), Abs(d))
    IN  <<(s * n) \div g, (s * d) \div g>>

RZero == <<0, 1>>
RAdd(p, q) == RatNorm(p[1] * q[2] + q[1] * p[2], p[2] * q[2])
RSub(p, q) == RatNorm(p[1] * q[2] - q[1] * p[2], p[2] * q[2])
RMul(p, q) == RatNorm(p[1] * q[1], p[2] * q[2])
RDiv(p, q) == RatNorm(p[1] * q[2], p[2] * q[1])
RSign(p) == IF p[1] > 0 THEN 1 ELSE IF p[1] < 0 THEN -1 ELSE 0
RLess(p, q) == p[1] * q[2] < q[1] * p[2]
RAbs(p) == <<Abs(p[1]), p[2]>>

\* floor(log2(n)) of a natural n >= 1
Log2(n) == CHOOSE j \in 0..29 : 2^j <= n /\ n < 2^(j + 1)

\* floor(log2(q)) of a rational q > 0, given lg = floor(log2(numerator)) -
\* floor(log2(denominator)), which is that or one more
RLog2From(q, lg) ==
    IF (IF lg >= 0 THEN q[1] >= q[2] * 2^lg ELSE q[1] * 2^(-lg) >= q[2])
    THEN lg ELSE lg - 1

\* floor(log2(q)) of a rational q > 0
RLog2(q) == RLog2From(q, Log2(q[1]) - Log2(q[2]))

\* m * 2^e
Scaled(m, e) == IF e >= 0 THEN RatNorm(m * 2^e, 1) ELSE RatNorm(m, 2^(-e))

\* s * (num / den) * 2^e with num / den rounded to the nearest integer, ties
\* to the even one
RoundFraction(s, num, den, e) ==
    IF 2 * (num % den) > den
       \/ (2 * (num % den) = den /\ (num \div den) % 2 = 1)
    THEN Scaled(s * ((num \div den) + 1), e)
    ELSE Scaled(s * (num \div den), e)

\* the rational q # 0 rounded to the nearest multiple of 2^e
RoundAt(q, e) ==
    RoundFraction(RSign(q),
                  IF e >= 0 THEN Abs(q[1]) ELSE Abs(q[1]) * 2^(-e),
                  IF e >= 0 THEN q[2] * 2^e ELSE q[2],
                  e)

\* the rational q # 0 rounded to the nearest number m * 2^e with m of at most
\* bits bits, ties to the even m
RoundTo(q, bits) == RoundAt(q, RLog2(RAbs(q)) - (bits - 1))

(***************************************************************************)
(* Array elements (numpy float64 scalars): a + b*sqrt(f), or NaN.          *)
(* f = 1 and b = 0 for a rational; f >= 2 square-free and b # 0 otherwise. *)
(***************************************************************************)
NaN == [nan |-> TRUE, a |-> RZero, b |-> RZero, f |-> 1]
Num(a, b, f) ==
    IF b = RZero THEN [nan |-> FALSE, a |-> a, b |-> RZero, f |-> 1]
    ELSE [nan |-> FALSE, a |-> a, b |-> b, f |-> f]
FromRat(q) == Num(q, RZero, 1)
Frac(n, d) == FromRat(RatNorm(n, d))
Zero == Frac(0, 1)
One == Frac(1, 1)

\* sign of a + b*sqrt(f); 0 for NaN is never used: callers test nan first
Sign(x) ==
    LET sa == RSign(x.a)
        sb == RSign(x.b)
        a2 == RMul(x.a, x.a)
        b2f == RMul(RMul(x.b, x.b), <<x.f, 1>>)
    IN  IF sb = 0 THEN sa
        ELSE IF sa = 0 \/ sa = sb THEN sb
        ELSE IF RLess(b2f, a2) THEN sa
        ELSE IF RLess(a2, b2f) THEN sb
        ELSE 0

\* x - y, elementwise operand of X - center_x and of 1 - gradient
NSub(x, y) ==
    IF x.nan \/ y.nan THEN NaN
    ELSE CASE y.b = RZero -> Num(RSub(x.a, y.a), x.b, x.f)
           [] x.b = RZero -> Num(RSub(x.a, y.a), RSub(RZero, y.b), y.f)
           [] x.f = y.f -> Num(RSub(x.a, y.a), RSub(x.b, y.b), x.f)

NAdd(x, y) ==
    IF x.nan \/ y.nan THEN NaN
    ELSE CASE y.b = RZero -> Num(RAdd(x.a, y.a), x.b, x.f)
           [] x.b = RZero -> Num(RAdd(x.a, y.a), y.b, y.f)
           [] x.f = y.f -> Num(RAdd(x.a, y.a), RAdd(x.b, y.b), x.f)

\* x ** 2
NSquare(x) ==
    IF x.nan THEN NaN
    ELSE Num(RAdd(RMul(x.a, x.a), RMul(RMul(x.b, x.b), <<x.f, 1>>)),
             RMul(<<2, 1>>, RMul(x.a, x.b)), x.f)

\* comparisons of numpy scalars: every comparison with NaN is False
NLess(x, y) == ~x.nan /\ ~y.nan /\ Sign(NSub(x, y)) < 0
NGreater(x, y) == NLess(y, x)

RECURSIVE ISqrt(_)
\* floor of the square root of a natural
ISqrt(n) ==
    IF n < 2 THEN n
    ELSE LET r == 2 * ISqrt(n \div 4)
         IN  IF (r + 1) * (r + 1) <= n THEN r + 1 ELSE r

\* the largest k with k*k dividing n (n >= 1)
SquarePart(n) ==
    LET S == {k \in 1..ISqrt(n) : n % (k * k) = 0}
    IN  CHOOSE k \in S : \A j \in S : j <= k

\* np.sqrt of a rational x >= 0: sqrt(n/d) = (kn / (kd * fd)) * sqrt(fn * fd)
NSqrt(x) ==
    IF x.nan \/ x.b # RZero \/ Sign(x) < 0 THEN NaN
    ELSE IF x.a = RZero THEN Zero
    ELSE LET n == x.a[1]
             d == x.a[2]
             kn == SquarePart(n)
             kd == SquarePart(d)
             fn == n \div (kn * kn)
             fd == d \div (kd * kd)
         IN  IF fn * fd = 1 THEN FromRat(RatNorm(kn, kd))
             ELSE Num(RZero, RatNorm(kn, kd * fd), fn * fd)

\* the square of a monomial (a rational or b*sqrt(f)), a rational
MonoSq(x) == RAdd(RMul(x.a, x.a), RMul(RMul(x.b, x.b), <<x.f, 1>>))

\* x / y for rationals and for the non-negative monomials np.sqrt returns;
\* 0/0 is NaN (numpy warns and goes on, it does not raise)
NDiv(x, y) ==
    IF x.nan \/ y.nan THEN NaN
    ELSE IF Sign(y) = 0 THEN NaN
    ELSE IF x.b = RZero /\ y.b = RZero THEN FromRat(RDiv(x.a, y.a))
    ELSE NSqrt(FromRat(RDiv(MonoSq(x), MonoSq(y))))

\* x * y for rationals
NMul(x, y) == IF x.nan \/ y.nan THEN NaN ELSE FromRat(RMul(x.a, y.a))

(***************************************************************************)
(* float64 arithmetic: each operation returns its exact result as the      *)
(* arithmetic of the behaviour stores it.                                  *)
(***************************************************************************)
\* the value stored for the exact result x
float64(x) ==
    IF significand = 0 \/ x.nan \/ x.a = RZero THEN x
    ELSE FromRat(RoundTo(x.a, significand))

\* the rounded root of a rational of integer part S whose root has floor r:
\* r of bits + 2 bits is the root scaled by 2^shift, and an inexact root is
\* moved half a unit up before the rounding, off every tie
RoundRoot(S, r, integral, shift, bits) ==
    RoundTo(IF integral /\ r * r = S THEN Scaled(r, -shift)
            ELSE Scaled(2 * r + 1, -(shift + 1)), bits)

\* the square root of num / den, which lies in [4^(bits+1), 4^(bits+2))
RootOfFraction(num, den, shift, bits) ==
    RoundRoot(num \div den, ISqrt(num \div den), num % den = 0, shift, bits)

\* the square root of q * 4^k
RootScaled(q, k, shift, bits) ==
    RootOfFraction(IF k >= 0 THEN q[1] * 4^k ELSE q[1],
                   IF k >= 0 THEN q[2] ELSE q[2] * 4^(-k), shift, bits)

\* the square root of the rational q > 0 with half = floor(log2(q) / 2)
RootAt(q, half, bits) == RootScaled(q, bits + 1 - half, bits + 1 - half, bits)

\* the square root of the rational q > 0, rounded to bits bits
RoundedSqrt(q, bits) == RootAt(q, RLog2(q) \div 2, bits)

np_subtract(x, y) == float64(NSub(x, y))
np_add(x, y) == float64(NAdd(x, y))
np_multiply(x, y) == float64(NMul(x, y))
np_divide(x, y) == float64(NDiv(x, y))
np_square(x) == float64(NSquare(x))
np_sqrt(x) ==
    IF significand = 0 \/ x.nan \/ Sign(x) <= 0 THEN NSqrt(x)
    ELSE FromRat(RoundedSqrt(x.a, significand))

\* the float64 a Python literal of value n/d denotes
Literal(n, d) == float64(Frac(n, d))

(***************************************************************************)
(* Python values.  Immediate values carry their type; arrays and lists are *)
(* objects on the heap, passed by reference.                               *)
(***************************************************************************)
PyInt(n) == [ty |-> "int", val |-> Frac(n, 1), name |-> "", id |-> 0]
PyFloat(n, d) == [ty |-> "float", val |-> Frac(n, d), name |-> "", id |-> 0]
PyStr(s) == [ty |-> "str", val |-> Zero, name |-> s, id |-> 0]
PyRef(i) == [ty |-> "ref", val |-> Zero, name |-> "", id |-> i]

\* class Direction(Enum)
FORWARD == [ty |-> "Direction", val |-> Zero, name |-> "forward", id |-> 0]
REVERSE == [ty |-> "Direction", val |-> Zero, name |-> "reverse", id |-> 0]
Direction == {FORWARD, REVERSE}

\* heap objects
NdArray(shape, data) == [ty |-> "ndarray", shape |-> shape, data |-> data]
PyList(data) == [ty |-> "list", shape |-> <<Len(data)>>, data |-> data]

\* isinstance(v, np.ndarray) for an argument v of a call on heap hp
IsNdArray(hp, v) == v.ty = "ref" /\ hp[v.id].ty = "ndarray"

(***************************************************************************)
(* How a call ends: it returns references, raises an exception to its      *)
(* caller, or prints a diagnostic and ends the process with sys.exit(1).   *)
(***************************************************************************)
Returned(hp, refs) ==
    [kind |-> "return", exc |-> "", printed |-> 0, heap |-> hp, refs |-> refs]
Raised(hp, e) ==
    [kind |-> "raise", exc |-> e, printed |-> 0, heap |-> hp, refs |-> <<>>]
Exited(hp) ==
    [kind |-> "exit", exc |-> "SystemExit", printed |-> 1, heap |-> hp,
     refs |-> <<>>]

\* except Exception as e: raise RuntimeError(...)
ExceptRaiseRuntimeError(hp, o) ==
    IF o.kind = "raise" THEN Raised(hp, "RuntimeError") ELSE o

\* except Exception as e: print(...); sys.exit(1).  SystemExit is no
\* Exception, so an exit of an inner call passes through.
ExceptPrintExit(hp, o) ==
    IF o.kind = "raise" THEN Exited(hp) ELSE o

(***************************************************************************)
(* numpy                                                                   *)
(***************************************************************************)
\* faulty variant of np_linspace: the endpoint is left out (endpoint=False)
np_linspace_no_endpoint(num) ==
    IF num.ty # "int" THEN [exc |-> "TypeError", data |-> <<>>]
    ELSE LET n == num.val.a[1]
             step == np_divide(One, Frac(n, 1))
         IN  IF n < 0 THEN [exc |-> "ValueError", data |-> <<>>]
             ELSE [exc |-> "",
                   data |-> [c \in 1..n |-> np_multiply(Frac(c - 1, 1), step)]]

\* np.linspace(0, 1, num): [exc, data].  num must be an integer
\* (operator.index) and non-negative; one sample is [0.].  For more samples
\* numpy multiplies arange(num) by step = 1 / (num - 1) and then stores the
\* stop value 1 in the last place.
np_linspace(num) ==
    IF num.ty # "int" THEN [exc |-> "TypeError", data |-> <<>>]
    ELSE LET n == num.val.a[1]
             step == np_divide(One, Frac(n - 1, 1))
         IN  IF n < 0 THEN [exc |-> "ValueError", data |-> <<>>]
             ELSE [exc |-> "",
                   data |-> [c \in 1..n |->
                               IF n = 1 THEN Zero
                               ELSE IF c = n THEN One
                               ELSE np_multiply(Frac(c - 1, 1), step)]]

\* np.meshgrid(x, y): X and Y of shape (len(y), len(x)), row-major, copies
np_meshgrid(x, y) ==
    LET w == Len(x)
        h == Len(y)
    IN  <<NdArray(<<h, w>>, [i \in 1..(h * w) |-> x[((i - 1) % w) + 1]]),
          NdArray(<<h, w>>, [i \in 1..(h * w) |-> y[((i - 1) \div w) + 1]])>>

\* x >= y for rationals and for the non-negative monomials np.sqrt returns
NotLess(x, y) ==
    IF x.b = RZero /\ y.b = RZero THEN ~RLess(x.a, y.a)
    ELSE ~RLess(MonoSq(x), MonoSq(y))

\* np.max(radial) of the non-negative values np.sqrt returns: [exc, val];
\* a zero-size array raises ValueError
np_max(data) ==
    IF Len(data) = 0 THEN [exc |-> "ValueError", val |-> Zero]
    ELSE LET top == CHOOSE i \in DOMAIN data :
                        \A j \in DOMAIN data : NotLess(data[i], data[j])
         IN  [exc |-> "", val |-> data[top]]

\* np.sqrt((X - center_x)**2 + (Y - center_y)**2), elementwise
RadialDistance(X, Y, center_x, center_y) ==
    [i \in 1..Len(X.data) |->
        np_sqrt(np_add(np_square(np_subtract(X.data[i], center_x.val)),
                       np_square(np_subtract(Y.data[i], center_y.val))))]

\* one element of np.clip(rgb_image, 0, 1)
clip(v) ==
    IF NLess(v, Zero) THEN Zero ELSE IF NGreater(v, One) THEN One ELSE v

\* np.stack([red, green, blue], axis=-1) of three 2-D arrays: [exc, arr]
np_stack(red, green, blue) ==
    IF red.shape # green.shape \/ green.shape # blue.shape
    THEN [exc |-> "ValueError", arr |-> NdArray(<<>>, <<>>)]
    ELSE LET chans == <<red, green, blue>>
             n == Len(red.data)
         IN  [exc |-> "",
              arr |-> NdArray(red.shape \o <<3>>,
                        [i \in 1..(3 * n) |->
                           chans[((i - 1) % 3) + 1].data[((i - 1) \div 3) + 1]])]

(***************************************************************************)
(* create_gradient_image.py                                                *)
(***************************************************************************)
\* the exception validate_width_and_height raises, "" when it returns
validate_width_and_height(width, height) ==
    IF width.ty \notin {"int", "float"} THEN "TypeError"
    ELSE IF height.ty \notin {"int", "float"} THEN "TypeError"
    ELSE IF ~NGreater(width.val, Zero) \/ ~NGreater(height.val, Zero)
    THEN "ValueError"
    ELSE ""

validate_center_coordinates(center_x, center_y) ==
    IF center_x.ty \notin {"int", "float"} THEN "TypeError"
    ELSE IF center_y.ty \notin {"int", "float"} THEN "TypeError"
    ELSE ""

\* a check of the direction that lets every value through
validate_direction_skipped(direction) == ""

validate_direction(direction) ==
    IF direction.ty # "Direction" THEN "TypeError" ELSE ""

validate_gradient_array(hp, gradient) ==
    IF ~IsNdArray(hp, gradient) THEN "TypeError" ELSE ""

\* lines 104-105: the meshgrid of the two linspace results x and y, unless
\* one of them raised; returns X, Y
GridsOf(hp, x, y) ==
    IF x.exc # "" THEN Raised(hp, x.exc)
    ELSE IF y.exc # "" THEN Raised(hp, y.exc)
    ELSE Returned(hp \o np_meshgrid(x.data, y.data),
                  <<Len(hp) + 1, Len(hp) + 2>>)

\* lines 102-105: the two linspace calls and the meshgrid
GridsBody(hp, width, height) ==
    GridsOf(hp, np_linspace(width), np_linspace(height))

\* X, _ = create_coordinate_grids(...); return X, for the outcome g of the
\* inner call
FirstGrid(hp, g) ==
    IF g.kind # "return" THEN g
    ELSE Returned(Append(hp, g.heap[g.refs[1]]), <<Len(hp) + 1>>)

\* return radial, for the outcome g of the inner create_coordinate_grids and
\* the normalized distances radial: [exc, data]
RadialOf(hp, g, radial) ==
    IF g.kind # "return" THEN g
    ELSE IF radial.exc # "" THEN Raised(hp, radial.exc)
    ELSE Returned(Append(hp, NdArray(g.heap[g.refs[1]].shape, radial.data)),
                  <<Len(hp) + 1>>)

image_create_coordinate_grids(hp, width, height) ==
    LET v == validate_width_and_height(width, height)
    IN  IF v # "" THEN Raised(hp, v) ELSE GridsBody(hp, width, height)

image_create_black_to_white_gradient(hp, width, height) ==
    LET v == validate_width_and_height(width, height)
    IN  IF v # "" THEN Raised(hp, v)
        ELSE FirstGrid(hp, image_create_coordinate_grids(hp, width, height))

image_create_linear_gradients(hp, width, height) ==
    LET v == validate_width_and_height(width, height)
    IN  IF v # "" THEN Raised(hp, v)
        ELSE image_create_coordinate_grids(hp, width, height)

\* lines 159-160: if np.max(radial) > 0: radial = radial / np.max(radial)
image_normalize(radial) ==
    LET m == np_max(radial)
    IN  IF m.exc # "" THEN [exc |-> m.exc, data |-> <<>>]
        ELSE IF NGreater(m.val, Zero)
        THEN [exc |-> "", data |-> [i \in 1..Len(radial) |->
                                  np_divide(radial[i], m.val)]]
        ELSE [exc |-> "", data |-> radial]

\* lines 157-161, for the outcome g of create_coordinate_grids
image_radial_body(hp, g, center_x, center_y) ==
    RadialOf(hp, g, image_normalize(RadialDistance(g.heap[g.refs[1]],
                                                   g.heap[g.refs[2]],
                                                   center_x, center_y)))

image_create_radial_gradient(hp, width, height, center_x, center_y) ==
    LET v == validate_width_and_height(width, height)
        c == validate_center_coordinates(center_x, center_y)
    IN  IF v # "" THEN Raised(hp, v)
        ELSE IF c # "" THEN Raised(hp, c)
        ELSE ExceptRaiseRuntimeError(hp,
                 image_radial_body(hp,
                     image_create_coordinate_grids(hp, width, height),
                     center_x, center_y))

\* faulty variant of reverse_value: the reversed value is clamped to [0,1]
reverse_value_clamped(v) == clip(np_subtract(One, v))

\* 1 - gradient, one element
reverse_value(v) == np_subtract(One, v)

\* faulty variant of DirectionBody: the test is on FORWARD, so the two
\* directions are swapped
DirectionBody_swapped(hp, gradient, direction) ==
    IF direction = FORWARD
    THEN LET g == hp[gradient.id]
         IN  Returned(Append(hp, NdArray(g.shape,
                        [i \in 1..Len(g.data) |-> reverse_value(g.data[i])])),
                      <<Len(hp) + 1>>)
    ELSE Returned(hp, <<gradient.id>>)

\* lines 179-182: REVERSE builds a new array, otherwise the argument itself
\* is returned
DirectionBody(hp, gradient, direction) ==
    IF direction = REVERSE
    THEN LET g == hp[gradient.id]
         IN  Returned(Append(hp, NdArray(g.shape,
                        [i \in 1..Len(g.data) |-> reverse_value(g.data[i])])),
                      <<Len(hp) + 1>>)
    ELSE Returned(hp, <<gradient.id>>)

image_apply_direction_to_gradient(hp, gradient, direction) ==
    LET a == validate_gradient_array(hp, gradient)
        d == validate_direction(direction)
    IN  IF a # "" THEN Raised(hp, a)
        ELSE IF d # "" THEN Raised(hp, d)
        ELSE DirectionBody(hp, gradient, direction)

image_create_rgb_combination(hp, red, green, blue) ==
    LET a == IF validate_gradient_array(hp, red) # "" THEN "TypeError"
             ELSE IF validate_gradient_array(hp, green) # "" THEN "TypeError"
             ELSE validate_gradient_array(hp, blue)
        st == np_stack(hp[red.id], hp[green.id], hp[blue.id])
        body == IF st.exc # "" THEN Raised(hp, st.exc)
                ELSE Returned(Append(hp, NdArray(st.arr.shape,
                        [i \in 1..Len(st.arr.data) |-> clip(st.arr.data[i])])),
                      <<Len(hp) + 1>>)
    IN  IF a # "" THEN Raised(hp, a)
        ELSE ExceptRaiseRuntimeError(hp, body)

(***************************************************************************)
(* create_gradient_on_image.py                                             *)
(***************************************************************************)
\* the isinstance(width, int) / isinstance(height, int) guards
on_image_check_dimensions(width, height) ==
    IF width.ty # "int" THEN "TypeError"
    ELSE IF height.ty # "int" THEN "TypeError"
    ELSE ""

on_image_create_coordinate_grids(hp, width, height) ==
    LET t == on_image_check_dimensions(width, height)
    IN  IF t # "" THEN Raised(hp, t)
        ELSE ExceptPrintExit(hp, GridsBody(hp, width, height))

on_image_create_black_to_white_gradient(hp, width, height) ==
    LET t == on_image_check_dimensions(width, height)
    IN  IF t # "" THEN Raised(hp, t)
        ELSE ExceptPrintExit(hp,
                 FirstGrid(hp, on_image_create_coordinate_grids(hp, width, height)))

on_image_create_linear_gradients(hp, width, height) ==
    LET t == on_image_check_dimensions(width, height)
    IN  IF t # "" THEN Raised(hp, t)
        ELSE ExceptPrintExit(hp, on_image_create_coordinate_grids(hp, width, height))

\* line 122: radial = radial / np.max(radial), with no test of the maximum
on_image_normalize(radial) ==
    LET m == np_max(radial)
    IN  IF m.exc # "" THEN [exc |-> m.exc, data |-> <<>>]
        ELSE [exc |-> "", data |-> [i \in 1..Len(radial) |->
                                  np_divide(radial[i], m.val)]]

\* lines 120-123, for the outcome g of create_coordinate_grids
on_image_radial_body(hp, g, center_x, center_y) ==
    RadialOf(hp, g, on_image_normalize(RadialDistance(g.heap[g.refs[1]],
                                                      g.heap[g.refs[2]],
                                                      center_x, center_y)))

on_image_create_radial_gradient(hp, width, height, center_x, center_y) ==
    LET t == IF on_image_check_dimensions(width, height) # "" THEN "TypeError"
             ELSE IF center_x.ty # "float" THEN "TypeError"
             ELSE IF center_y.ty # "float" THEN "TypeError"
             ELSE ""
    IN  IF t # "" THEN Raised(hp, t)
        ELSE ExceptPrintExit(hp,
                 on_image_radial_body(hp,
                     on_image_create_coordinate_grids(hp, width, height),
                     center_x, center_y))

on_image_apply_direction_to_gradient(hp, gradient, direction) ==
    IF ~IsNdArray(hp, gradient) THEN Raised(hp, "TypeError")
    ELSE IF direction.ty # "Direction" THEN Raised(hp, "TypeError")
    ELSE ExceptPrintExit(hp, DirectionBody(hp, gradient, direction))

\* line 181: return x_grad, y_grad, for the outcomes lx and ly of the two
\* apply_direction_to_gradient calls
directional_return(lx, ly) ==
    IF ly.kind # "return" THEN ly
    ELSE Returned(ly.heap, <<lx.refs[1], ly.refs[1]>>)

\* lines 180-181, for the outcome l of create_linear_gradients and the
\* outcome lx of the first apply_direction_to_gradient call
directional_y(l, lx, direction_y) ==
    IF lx.kind # "return" THEN lx
    ELSE directional_return(lx,
             on_image_apply_direction_to_gradient(lx.heap, PyRef(l.refs[2]),
                                                  direction_y))

\* lines 179-181, for the outcome l of create_linear_gradients
directional_x(l, direction_x, direction_y) ==
    IF l.kind # "return" THEN l
    ELSE directional_y(l,
             on_image_apply_direction_to_gradient(l.heap, PyRef(l.refs[1]),
                                                  direction_x),
             direction_y)

on_image_create_directional_gradients(hp, direction_x, direction_y, width, height) ==
    LET t == IF on_image_check_dimensions(width, height) # "" THEN "TypeError"
             ELSE IF direction_x.ty # "Direction" THEN "TypeError"
             ELSE IF direction_y.ty # "Direction" THEN "TypeError"
             ELSE ""
    IN  IF t # "" THEN Raised(hp, t)
        ELSE ExceptPrintExit(hp,
                 directional_x(on_image_create_linear_gradients(hp, width, height),
                               direction_x, direction_y))

\* line 209: return np.stack([...], axis=2), with no np.clip
on_image_create_rgb_combination(hp, red_grad, green_grad, blue_grad) ==
    LET t == IF ~IsNdArray(hp, red_grad) THEN "TypeError"
             ELSE IF ~IsNdArray(hp, green_grad) THEN "TypeError"
             ELSE IF ~IsNdArray(hp, blue_grad) THEN "TypeError"
             ELSE ""
        st == np_stack(hp[red_grad.id], hp[green_grad.id], hp[blue_grad.id])
        body == IF st.exc # "" THEN Raised(hp, st.exc)
                ELSE Returned(Append(hp, st.arr), <<Len(hp) + 1>>)
    IN  IF t # "" THEN Raised(hp, t) ELSE ExceptPrintExit(hp, body)

(***************************************************************************)
(* The client process: it imports one of the two modules, calls one core   *)
(* operation at a time with arguments of its choice, may then write an     *)
(* element of an array it holds, and drops its references before the next  *)
(* call.                                                                   *)
(***************************************************************************)
Image == "create_gradient_image"
OnImage == "create_gradient_on_image"
Modules == {Image, OnImage}

\* widths and heights a client passes
DimArgs == {PyInt(n) : n \in -1..MaxDim} \cup {PyFloat(5, 2), PyStr("256")}
\* center coordinates a client passes: on the grid, off the grid, int, float
CenterArgs ==
    {PyInt(0), PyInt(1), PyFloat(0, 1), PyFloat(1, 2), PyFloat(1, 1),
     PyFloat(-1, 1), PyFloat(3, 2), PyStr("0.5")}
\* direction arguments: the two enumerated values and a raw string
DirectionArgs == Direction \cup {PyStr("reverse")}

\* element values of the arrays a client builds itself: below 0, inside
\* [0,1], above 1
ClientValues == {Literal(-1, 2), Literal(1, 10), Literal(3, 2)}
\* the objects a client passes as a field: small arrays, and a list
ClientFields ==
    {NdArray(<<1, 1>>, <<v>>) : v \in ClientValues}
    \cup {NdArray(<<1, 2>>, <<u, v>>) : u \in ClientValues, v \in ClientValues}
    \cup {PyList(<<Literal(1, 10)>>)}
\* the value a client writes into an array
Poke == Frac(7, 1)

VARIABLES
    module,    \* the module the process imported
    alive,     \* FALSE once sys.exit has ended the process
    stdout,    \* number of diagnostics printed by the core
    heap,      \* the objects the client's references denote
    op,        \* the operation called last, "none" before a call
    args,      \* its arguments
    outcome,   \* how it ended, and the references it returned
    snapshot,  \* the heap as it was when the call ended
    written,   \* the reference the client wrote through since, 0 if none
    prev,      \* the call before, when this one took its result
    calls,     \* number of calls since the client last dropped its references
    fields     \* the arrays the client holds as gradient fields: those that
               \* create_linear_gradients, create_radial_gradient or
               \* create_directional_gradients returned to it, and those
               \* apply_direction_to_gradient returned for one of them

vars == <<significand, module, alive, stdout, heap, op, args, outcome,
          snapshot, written, prev, calls, fields>>

NoOutcome == [kind |-> "none", exc |-> "", refs |-> <<>>]
NoCall == [op |-> "none", args |-> <<>>, refs |-> <<>>]

\* the state of a client that has imported one of the two modules
Loaded ==
    /\ module \in Modules
    /\ alive = TRUE
    /\ stdout = 0
    /\ heap = <<>>
    /\ op = "none"
    /\ args = <<>>
    /\ outcome = NoOutcome
    /\ snapshot = <<>>
    /\ written = 0
    /\ prev = NoCall
    /\ calls = 0
    /\ fields = {}

Init == significand = 0 /\ Loaded
InitRounded == significand = MantissaBits /\ Loaded

Idle == alive /\ op = "none"

\* the operations whose results the clients use as gradient fields
Generators == {"create_linear_gradients", "create_radial_gradient",
               "create_directional_gradients"}

\* the gradient fields the client holds once the call of operation name with
\* arguments a has ended as o
FieldsAfter(name, a, o) ==
    IF o.kind # "return" THEN fields
    ELSE IF name \in Generators
         \/ (name = "apply_direction_to_gradient" /\ a[1].id \in fields)
    THEN fields \cup {o.refs[i] : i \in DOMAIN o.refs}
    ELSE fields

\* the call of operation name with arguments a ended as o
Finish(name, a, o) ==
    /\ op' = name
    /\ args' = a
    /\ outcome' = [kind |-> o.kind, exc |-> o.exc, refs |-> o.refs]
    /\ heap' = o.heap
    /\ snapshot' = o.heap
    /\ stdout' = stdout + o.printed
    /\ alive' = (o.kind # "exit")
    /\ written' = 0
    /\ calls' = calls + 1
    /\ fields' = FieldsAfter(name, a, o)
    /\ UNCHANGED <<significand, module>>

\* a first call, on arguments the client built
Complete(name, a, o) == Finish(name, a, o) /\ prev' = NoCall

CallCoordinateGrids ==
    /\ Idle
    /\ \E width \in DimArgs, height \in DimArgs :
          Complete("create_coordinate_grids", <<width, height>>,
              IF module = Image
              THEN image_create_coordinate_grids(<<>>, width, height)
              ELSE on_image_create_coordinate_grids(<<>>, width, height))

CallBlackToWhite ==
    /\ Idle
    /\ \E width \in DimArgs, height \in DimArgs :
          Complete("create_black_to_white_gradient", <<width, height>>,
              IF module = Image
              THEN image_create_black_to_white_gradient(<<>>, width, height)
              ELSE on_image_create_black_to_white_gradient(<<>>, width, height))

CallLinear ==
    /\ Idle
    /\ \E width \in DimArgs, height \in DimArgs :
          Complete("create_linear_gradients", <<width, height>>,
              IF module = Image
              THEN image_create_linear_gradients(<<>>, width, height)
              ELSE on_image_create_linear_gradients(<<>>, width, height))

CallRadial ==
    /\ Idle
    /\ \E width \in DimArgs, height \in DimArgs,
          center_x \in CenterArgs, center_y \in CenterArgs :
          Complete("create_radial_gradient",
              <<width, height, center_x, center_y>>,
              IF module = Image
              THEN image_create_radial_gradient(<<>>, width, height,
                                                center_x, center_y)
              ELSE on_image_create_radial_gradient(<<>>, width, height,
                                                   center_x, center_y))

CallApplyDirection ==
    /\ Idle
    /\ \E field \in ClientFields, direction \in DirectionArgs :
          Complete("apply_direction_to_gradient", <<PyRef(1), direction>>,
              IF module = Image
              THEN image_apply_direction_to_gradient(<<field>>, PyRef(1), direction)
              ELSE on_image_apply_direction_to_gradient(<<field>>, PyRef(1),
                                                        direction))

\* only create_gradient_on_image.py defines create_directional_gradients
CallDirectional ==
    /\ Idle
    /\ module = OnImage
    /\ \E direction_x \in DirectionArgs, direction_y \in DirectionArgs,
          width \in DimArgs, height \in DimArgs :
          Complete("create_directional_gradients",
              <<direction_x, direction_y, width, height>>,
              on_image_create_directional_gradients(<<>>, direction_x,
                                                    direction_y, width, height))

CallCombine ==
    /\ Idle
    /\ \E red \in ClientFields, green \in ClientFields, blue \in ClientFields :
          Complete("create_rgb_combination", <<PyRef(1), PyRef(2), PyRef(3)>>,
              IF module = Image
              THEN image_create_rgb_combination(<<red, green, blue>>,
                                                PyRef(1), PyRef(2), PyRef(3))
              ELSE on_image_create_rgb_combination(<<red, green, blue>>,
                                                   PyRef(1), PyRef(2), PyRef(3)))

\* the references the client passed in, and those it holds after the call
ArgRefs == {args[i].id : i \in {j \in DOMAIN args : args[j].ty = "ref"}}
ResultRefs == {outcome.refs[i] : i \in DOMAIN outcome.refs}

\* the client passes an array the call before returned on to
\* apply_direction_to_gradient
CallApplyDirectionOnResult ==
    /\ alive
    /\ outcome.kind = "return"
    /\ written = 0
    /\ calls < MaxCalls
    /\ \E ref \in ResultRefs, direction \in DirectionArgs :
          /\ Finish("apply_direction_to_gradient", <<PyRef(ref), direction>>,
                IF module = Image
                THEN image_apply_direction_to_gradient(heap, PyRef(ref), direction)
                ELSE on_image_apply_direction_to_gradient(heap, PyRef(ref),
                                                          direction))
          /\ prev' = [op |-> op, args |-> args, refs |-> outcome.refs]

\* the client passes three of the gradient fields it holds on to
\* create_rgb_combination, unless the call before was a combination itself
CallCombineFields ==
    /\ alive
    /\ op # "create_rgb_combination"
    /\ outcome.kind = "return"
    /\ written = 0
    /\ calls < MaxCalls
    /\ \E red \in fields, green \in fields, blue \in fields :
          /\ Finish("create_rgb_combination",
                    <<PyRef(red), PyRef(green), PyRef(blue)>>,
                IF module = Image
                THEN image_create_rgb_combination(heap, PyRef(red),
                                                  PyRef(green), PyRef(blue))
                ELSE on_image_create_rgb_combination(heap, PyRef(red),
                                                     PyRef(green), PyRef(blue)))
          /\ prev' = [op |-> op, args |-> args, refs |-> outcome.refs]

\* the client writes one element of an array it holds after a first call:
\* arr[...] = Poke
Write ==
    \E ref \in ArgRefs \cup ResultRefs :
        /\ alive
        /\ outcome.kind = "return"
        /\ written = 0
        /\ prev = NoCall
        /\ heap[ref].ty = "ndarray"
        /\ \E i \in DOMAIN heap[ref].data :
              heap' = [heap EXCEPT ![ref].data[i] = Poke]
        /\ written' = ref
        /\ UNCHANGED <<significand, module, alive, stdout, op, args, outcome,
                       snapshot, prev, calls, fields>>

\* the client catches the exception, if any, and drops its references
Release ==
    /\ alive
    /\ op # "none"
    /\ op' = "none"
    /\ args' = <<>>
    /\ outcome' = NoOutcome
    /\ heap' = <<>>
    /\ snapshot' = <<>>
    /\ written' = 0
    /\ prev' = NoCall
    /\ calls' = 0
    /\ fields' = {}
    /\ UNCHANGED <<significand, module, alive, stdout>>

Next ==
    \/ CallCoordinateGrids
    \/ CallBlackToWhite
    \/ CallLinear
    \/ CallRadial
    \/ CallApplyDirection
    \/ CallDirectional
    \/ CallCombine
    \/ CallApplyDirectionOnResult
    \/ CallCombineFields
    \/ Write
    \/ Release

Spec == Init /\ [][Next]_vars
SpecRounded == InitRounded /\ [][Next]_vars

(***************************************************************************)
(* Properties                                                              *)
(***************************************************************************)
IsPositiveInt(v) == v.ty = "int" /\ v.val.a[1] >= 1
\* 0 <= v <= 1
InUnitRange(v) == ~v.nan /\ Sign(v) >= 0 /\ Sign(NSub(One, v)) >= 0
\* v clamped to [0,1]
Clamp01(v) ==
    IF Sign(v) < 0 THEN Zero ELSE IF Sign(NSub(v, One)) > 0 THEN One ELSE v
Returns == outcome.kind = "return"
\* the k-th array the call returned, as it was when the call ended
Result(k) == snapshot[outcome.refs[k]]
\* the array passed as the k-th argument, as it was when the call ended
Argument(k) == snapshot[args[k].id]

C2_RadialUnitRange ==
    (op = "create_radial_gradient" /\ Returns)
    => /\ \A i \in DOMAIN Result(1).data : InUnitRange(Result(1).data[i])
       /\ Len(Result(1).data) > 1
            => \E i \in DOMAIN Result(1).data : Result(1).data[i] = One

\* C3: create_radial_gradient never divides by a zero maximum: the maximum
\* distance is 0 only on the 1x1 grid centered at (0,0), the field returned
\* is then all-zero, and otherwise each element is d[r,c] / max(d).
C3_NoZeroDivision ==
    (op = "create_radial_gradient" /\ Returns)
    => LET XY == np_meshgrid(np_linspace(args[1]).data, np_linspace(args[2]).data)
           d == RadialDistance(XY[1], XY[2], args[3], args[4])
           m == np_max(d).val
       IN  /\ m = Zero => /\ args[1] = PyInt(1) /\ args[2] = PyInt(1)
                          /\ args[3].val = Zero /\ args[4].val = Zero
           /\ \A i \in DOMAIN d :
                 Result(1).data[i] = (IF m = Zero THEN Zero ELSE np_divide(d[i], m))

\* C4: for an array and a direction of the enumeration,
\* apply_direction_to_gradient returns an array of the same shape, equal to
\* the input elementwise for FORWARD and with 1 - v for every input element v
\* for REVERSE; nothing is clamped.
C4_DirectionValues ==
    (/\ op = "apply_direction_to_gradient"
     /\ Argument(1).ty = "ndarray"
     /\ args[2] \in Direction)
    => /\ Returns
       /\ Len(outcome.refs) = 1
       /\ Result(1).ty = "ndarray"
       /\ Result(1).shape = Argument(1).shape
       /\ DOMAIN Result(1).data = DOMAIN Argument(1).data
       /\ \A i \in DOMAIN Argument(1).data :
             Result(1).data[i] = (IF args[2] = FORWARD
                                  THEN Argument(1).data[i]
                                  ELSE np_subtract(One, Argument(1).data[i]))

\* REVERSE was applied to an array holding 3/2 and returned -1/2 in its place
C4_Witness ==
    /\ op = "apply_direction_to_gradient"
    /\ args[2] = REVERSE
    /\ Returns
    /\ \E i \in DOMAIN Argument(1).data :
          /\ Argument(1).data[i] = Frac(3, 2)
          /\ Result(1).data[i] = Frac(-1, 2)

\* this call reversed the array that the call before returned as the reverse
\* of its own argument
ReversedTwice ==
    /\ op = "apply_direction_to_gradient"
    /\ args[2] = REVERSE
    /\ Returns
    /\ prev.op = "apply_direction_to_gradient"
    /\ prev.args[2] = REVERSE
    /\ args[1].id = prev.refs[1]

\* |x|
NAbs(x) == IF ~x.nan /\ Sign(x) < 0 THEN NSub(Zero, x) ELSE x

\* the spacing of the stored numbers just above 1 (np.finfo(float).eps), 0
\* in exact arithmetic
MachineEpsilon ==
    IF significand = 0 THEN Zero ELSE FromRat(Scaled(1, 1 - significand))

\* C5 as stated: applying REVERSE twice gives back the field, the array
\* returned by the second call equals the argument of the first elementwise.
C5_ReverseTwice ==
    ReversedTwice
    => /\ Result(1).shape = snapshot[prev.args[1].id].shape
       /\ Result(1).data = snapshot[prev.args[1].id].data

\* C5: applying REVERSE twice gives back the field up to rounding: the array
\* returned by the second call has the shape of the argument of the first,
\* and for every element v of that argument the element returned is v itself
\* wherever the first call stored 1 - v exactly, is within
\* MachineEpsilon * (1 + |v|) of v in any case, and is NaN where v is NaN.
C5_ReverseTwiceRounded ==
    ReversedTwice
    => LET f == snapshot[prev.args[1].id]
           g == Argument(1)
           r == Result(1)
       IN  /\ r.shape = f.shape
           /\ DOMAIN r.data = DOMAIN f.data
           /\ \A i \in DOMAIN f.data :
                 LET v == f.data[i]
                 IN  IF v.nan THEN r.data[i].nan
                     ELSE /\ ~r.data[i].nan
                          /\ g.data[i] = NSub(One, v) => r.data[i] = v
                          /\ ~NLess(NMul(MachineEpsilon, NAdd(One, NAbs(v))),
                                    NAbs(NSub(r.data[i], v)))

\* an array was reversed twice and an element came back changed by rounding
C5_Witness ==
    /\ ReversedTwice
    /\ \E i \in DOMAIN Result(1).data :
          /\ ~Result(1).data[i].nan
          /\ Result(1).data[i] # snapshot[prev.args[1].id].data[i]

\* the three arguments of create_rgb_combination are 2-D arrays
CombinesArrays ==
    /\ op = "create_rgb_combination"
    /\ \A k \in 1..3 : Argument(k).ty = "ndarray" /\ Len(Argument(k).shape) = 2

\* C6: create_rgb_combination of three arrays of one shape (height, width)
\* returns an array of shape (height, width, 3) whose channel k at each pixel
\* is the k-th argument's value there clamped to [0,1].
C6_CombineClamps ==
    (/\ CombinesArrays
     /\ Argument(1).shape = Argument(2).shape
     /\ Argument(2).shape = Argument(3).shape)
    => /\ Returns
       /\ Result(1).shape = Argument(1).shape \o <<3>>
       /\ Len(Result(1).data) = 3 * Len(Argument(1).data)
       /\ \A p \in DOMAIN Argument(1).data, k \in 1..3 :
             /\ Result(1).data[3 * (p - 1) + k] = Clamp01(Argument(k).data[p])
             /\ InUnitRange(Result(1).data[3 * (p - 1) + k])

\* C7: create_rgb_combination of three arrays that do not all have the same
\* shape raises an error to its caller and returns no image.
C7_ShapeMismatchRaises ==
    (/\ CombinesArrays
     /\ \/ Argument(1).shape # Argument(2).shape
        \/ Argument(2).shape # Argument(3).shape)
    => outcome.kind = "raise" /\ alive

\* C8: create_coordinate_grids, create_linear_gradients,
\* create_black_to_white_gradient and create_radial_gradient raise an error,
\* and return no field, when width or height is not a positive integer.
C8_InvalidDimensionRaises ==
    (/\ op \in {"create_coordinate_grids", "create_linear_gradients",
                "create_black_to_white_gradient", "create_radial_gradient"}
     /\ ~(IsPositiveInt(args[1]) /\ IsPositiveInt(args[2])))
    => outcome.kind = "raise" /\ alive

\* C9: no call of a core operation ends the process or prints a diagnostic.
C9_NeverExitsOrPrints == alive /\ stdout = 0

\* C10: the array apply_direction_to_gradient or create_rgb_combination
\* returns shares no storage with an argument: a write through the result
\* leaves every argument as it was, and a write through an argument leaves
\* the result as it was.
C10_NoSharedStorage ==
    (/\ op \in {"apply_direction_to_gradient", "create_rgb_combination"}
     /\ Returns
     /\ written # 0)
    => /\ written \in ResultRefs => \A i \in ArgRefs : heap[i] = snapshot[i]
       /\ written \in ArgRefs => \A r \in ResultRefs : heap[r] = snapshot[r]

\* a step that is a call of apply_direction_to_gradient
AppliesDirection == op' = "apply_direction_to_gradient" /\ calls' = calls + 1

\* C11: a call of apply_direction_to_gradient whose direction is not FORWARD
\* or REVERSE (the string "reverse", say) raises TypeError to its caller: it
\* returns nothing, creates no array, prints nothing and leaves the process
\* running; a call with FORWARD or REVERSE on an array returns.
C11_InvalidDirectionRaises ==
    [][AppliesDirection
       => IF args'[2] \notin Direction
          THEN /\ outcome'.kind = "raise"
               /\ outcome'.exc = "TypeError"
               /\ outcome'.refs = <<>>
               /\ alive' /\ stdout' = stdout
               /\ heap' = (IF calls = 0 THEN <<heap'[1]>> ELSE heap)
          ELSE heap'[args'[1].id].ty = "ndarray" => outcome'.kind = "return"]_vars

\* create_gradient_on_image was handed the string "reverse" with an array
\* that an earlier call returned, and raised TypeError
C11_Witness ==
    /\ module = OnImage
    /\ op = "apply_direction_to_gradient"
    /\ args[2] = PyStr("reverse")
    /\ prev.op # "none"
    /\ Argument(1).ty = "ndarray"
    /\ outcome.kind = "raise" /\ outcome.exc = "TypeError"
    /\ alive

\* a Python number that is a real number: an int or a float
IsRealNumber(v) == v.ty \in {"int", "float"}

\* C12: for positive integer width and height, create_radial_gradient
\* returns a field for every center whose two coordinates are real numbers,
\* integers included and values outside [0,1] included, and raises TypeError
\* to its caller exactly when a coordinate is not a real number.
C12_RealCenterAccepted ==
    (/\ op = "create_radial_gradient"
     /\ IsPositiveInt(args[1])
     /\ IsPositiveInt(args[2]))
    => IF IsRealNumber(args[3]) /\ IsRealNumber(args[4])
       THEN /\ Returns
            /\ Result(1).ty = "ndarray"
            /\ Result(1).shape = <<args[2].val.a[1], args[1].val.a[1]>>
       ELSE outcome.kind = "raise" /\ outcome.exc = "TypeError" /\ alive

\* every element of the array is >= 0 and <= 1
AllInUnitRange(arr) == \A i \in DOMAIN arr.data : InUnitRange(arr.data[i])

\* this call combined three gradient fields the client held
CombinedFields ==
    /\ op = "create_rgb_combination"
    /\ \A k \in 1..3 : args[k].id \in fields

\* C13: every field create_linear_gradients, create_radial_gradient or
\* create_directional_gradients returns, and every field
\* apply_direction_to_gradient returns for such a field, any number of times
\* over, has all its elements in [0,1]; and create_rgb_combination of three
\* such fields returns an image with all its elements in [0,1], in the module
\* that does not clip too.
C13_PipelineInUnitRange ==
    /\ \A ref \in fields : AllInUnitRange(snapshot[ref])
    /\ CombinedFields => Returns /\ AllInUnitRange(Result(1))
====
